---- MODULE Spec2Model ----
(***************************************************************************)
(* Model of tools/config-generator/testgrid_config.go (the TestGrid        *)
(* metadata store and the configuration passes) and of pkg/gke/request.go  *)
(* (the cluster request builder).                                          *)
(*                                                                         *)
(* Go strings that the code formats, lowercases or matches are sequences   *)
(* of one-character strings, so that strings.ToLower and fmt.Sprintf are   *)
(* computed and not assumed.                                               *)
(***************************************************************************)
EXTENDS Integers, Sequences, FiniteSets, TLC

\* ---------------------------------------------------------------------
\* String literals of testgrid_config.go
\* ---------------------------------------------------------------------

s_ci ==
    <<"c","i">>

s_dash ==
    <<"-">>

s_release ==
    <<"r","e","l","e","a","s","e">>

s_go_coverage ==
    <<"g","o","-","c","o","v","e","r","a","g","e">>

s_continuous ==
    <<"c","o","n","t","i","n","u","o","u","s">>

s_dot_release ==
    <<"d","o","t","-","r","e","l","e","a","s","e">>

s_auto_release ==
    <<"a","u","t","o","-","r","e","l","e","a","s","e">>

s_nightly ==
    <<"n","i","g","h","t","l","y">>

s_webhook_apicoverage ==
    <<"w","e","b","h","o","o","k","-","a","p","i","c","o","v","e","r","a","g","e">>

s_test_coverage ==
    <<"t","e","s","t","-","c","o","v","e","r","a","g","e">>

s_conformance ==
    <<"c","o","n","f","o","r","m","a","n","c","e">>

s_coverage ==
    <<"c","o","v","e","r","a","g","e">>

s_knative_serving ==
    <<"k","n","a","t","i","v","e","-","s","e","r","v","i","n","g">>

\* ---------------------------------------------------------------------
\* Input values used to exercise the program
\* ---------------------------------------------------------------------

in_performance ==
    <<"p","e","r","f","o","r","m","a","n","c","e">>

in_knative ==
    <<"k","n","a","t","i","v","e">>

in_knative_v1_2 ==
    <<"k","n","a","t","i","v","e","-","v","1",".","2">>

in_knative_serving_v1_2 ==
    <<"k","n","a","t","i","v","e","-","s","e","r","v","i","n","g","-","v","1",".","2">>

in_serving ==
    <<"s","e","r","v","i","n","g">>

in_Serving ==
    <<"S","e","r","v","i","n","g">>

in_Eventing ==
    <<"E","v","e","n","t","i","n","g">>

in_istio ==
    <<"i","s","t","i","o">>

in_istio_v2 ==
    <<"i","s","t","i","o","-","2">>

\* ---------------------------------------------------------------------
\* Expected strings named by the properties
\* ---------------------------------------------------------------------

x_serving_nightly_release ==
    <<"s","e","r","v","i","n","g","-","n","i","g","h","t","l","y","-","r","e","l","e","a","s","e">>

x_eventing_continuous ==
    <<"e","v","e","n","t","i","n","g","-","c","o","n","t","i","n","u","o","u","s">>

x_ci_serving_nightly_release ==
    <<"c","i","-","s","e","r","v","i","n","g","-","n","i","g","h","t","l","y","-","r","e","l","e","a","s","e">>

x_ci_eventing_continuous ==
    <<"c","i","-","e","v","e","n","t","i","n","g","-","c","o","n","t","i","n","u","o","u","s">>
\* ---------------------------------------------------------------------
\* Bounds of the model
\* ---------------------------------------------------------------------

\* Total number of jobs the loader registers in the grid.
MaxJobs == 1

\* Number of non-aligned test groups the loader registers.
MaxNonAligned == 2

\* Length of the job list handed to a single generator call.
MaxJobList == 2

\* Node counts tried by the cluster request builder range over -1..MaxNodeArg.
MaxNodeArg == 2

\* ---------------------------------------------------------------------
\* Go library operations on strings, slices and maps
\* ---------------------------------------------------------------------

UpperLetters ==
    <<"A","B","C","D","E","F","G","H","I","J","K","L","M",
      "N","O","P","Q","R","S","T","U","V","W","X","Y","Z">>

LowerLetters ==
    <<"a","b","c","d","e","f","g","h","i","j","k","l","m",
      "n","o","p","q","r","s","t","u","v","w","x","y","z">>

ToLowerChar(c) ==
    IF \E i \in 1..Len(UpperLetters) : UpperLetters[i] = c
    THEN LowerLetters[CHOOSE i \in 1..Len(UpperLetters) : UpperLetters[i] = c]
    ELSE c

\* strings.ToLower
ToLower(s) ==
    [i \in 1..Len(s) |-> ToLowerChar(s[i])]

Range(s) ==
    {s[i] : i \in 1..Len(s)}

RECURSIVE Flatten(_)
\* Concatenation of the outputs of the iterations of a loop.
Flatten(ss) ==
    IF ss = <<>> THEN <<>> ELSE Head(ss) \o Flatten(Tail(ss))

\* An empty Go map.
EmptyMap ==
    [k \in {} |-> k]

\* m[k] = v on a Go map.
MapPut(m, k, v) ==
    [x \in (DOMAIN m) \cup {k} |-> IF x = k THEN v ELSE m[x]]

\* strExists reports whether the slice holds the string.
strExists(arr, str) ==
    \E i \in 1..Len(arr) : arr[i] = str

\* ---------------------------------------------------------------------
\* Release pattern of project names
\* ---------------------------------------------------------------------

VersionChars ==
    {"0","1","2","3","4","5","6","7","8","9","."}

\* Start positions of a release suffix: a dash, an optional "v" and
\* one or more digits or dots up to the end of the name, after a non-empty
\* prefix.
ReleaseSuffixStarts(s) ==
    {i \in 2..Len(s) :
        /\ s[i] = "-"
        /\ LET first == IF i + 1 <= Len(s) /\ s[i + 1] = "v" THEN i + 2 ELSE i + 1
           IN  /\ first <= Len(s)
               /\ \A k \in first..Len(s) : s[k] \in VersionChars}

\* releaseRegex.FindString(projName): the leftmost match, "" when none.
releaseRegexFindString(s) ==
    IF ReleaseSuffixStarts(s) = {} THEN <<>>
    ELSE LET i == CHOOSE x \in ReleaseSuffixStarts(s) :
                      \A y \in ReleaseSuffixStarts(s) : x <= y
         IN  SubSeq(s, i, Len(s))

isReleased(projName) ==
    releaseRegexFindString(projName) # <<>>

\* The project and repository of a grid cell as one string.
buildProjRepoStr(projName, repoName) ==
    projName \o s_dash \o repoName

\* ---------------------------------------------------------------------
\* Inputs
\* ---------------------------------------------------------------------

Projects ==
    {in_knative, in_knative_v1_2}

Repos ==
    {in_serving, in_Eventing}

StoreJobKinds ==
    {s_continuous, s_nightly}

AllJobKinds ==
    {s_continuous, s_dot_release, s_auto_release, s_nightly,
     s_webhook_apicoverage, s_test_coverage, in_performance}

NonAlignedInputs ==
    { [CIJobName |-> <<"c","i","-","a">>, HumanTabName |-> <<"e","2","e">>,
       DashboardName |-> <<"i","s","t","i","o">>, DashboardGroup |-> <<"m","e","s","h">>,
       BaseOptions |-> "sort-by-name=", Extra |-> EmptyMap],
      [CIJobName |-> <<"c","i","-","b">>, HumanTabName |-> <<"e","2","e">>,
       DashboardName |-> <<"g","l","o","o">>, DashboardGroup |-> <<"m","e","s","h">>,
       BaseOptions |-> "sort-by-failures=", Extra |-> EmptyMap],
      [CIJobName |-> <<"c","i","-","c">>, HumanTabName |-> <<"p","e","r","f">>,
       DashboardName |-> <<"i","s","t","i","o">>, DashboardGroup |-> <<"p","e","r","f">>,
       BaseOptions |-> "sort-by-name=", Extra |-> EmptyMap] }

\* ---------------------------------------------------------------------
\* State
\* ---------------------------------------------------------------------

VARIABLES
    md,          \* TestGridMetaData.md: project name -> JobDetailMap
    projNames,   \* TestGridMetaData.projNames
    repoNames,   \* TestGridMetaData.repoNames
    nonAligned,  \* TestGridMetaData.nonAligned
    output,      \* what output.outputConfig has written so far
    count,       \* output.count
    pc,          \* position of the generation run
    seenProj,    \* history: project names in the order first passed to a call
    seenRepo,    \* history: repository names in the order first passed to a call
    ret,         \* the last call of a function under test and what it returned
    heap,        \* the backing arrays of the Addons slices, by address
    generatorCalls  \* the calls of the generator made by the last section walk

vars ==
    <<md, projNames, repoNames, nonAligned, output, count, pc, seenProj, seenRepo, ret, heap, generatorCalls>>

storeVars ==
    <<md, projNames, repoNames, nonAligned>>

\* The store as one value, for the methods that update it.
Store ==
    [md |-> md, projNames |-> projNames, repoNames |-> repoNames]

NoCall ==
    [fn |-> "none"]

\* NewTestGridMetaData followed by a reset of the output.
Init ==
    /\ md = EmptyMap
    /\ projNames = <<>>
    /\ repoNames = <<>>
    /\ nonAligned = <<>>
    /\ output = <<>>
    /\ count = 0
    /\ pc = "load"
    /\ seenProj = <<>>
    /\ seenRepo = <<>>
    /\ ret = NoCall
    /\ heap = EmptyMap
    /\ generatorCalls = <<>>

\* ---------------------------------------------------------------------
\* The grouping store
\* ---------------------------------------------------------------------

\* Mutant: the new project is put in the map but not in the list of names.
EnsureExists_NoAppend(t, projName) ==
    IF projName \notin DOMAIN t.md
    THEN [t EXCEPT !.md = MapPut(t.md, projName, EmptyMap)]
    ELSE t

EnsureExists(t, projName) ==
    IF projName \notin DOMAIN t.md
    THEN [t EXCEPT !.md = MapPut(t.md, projName, EmptyMap),
                   !.projNames = IF ~strExists(t.projNames, projName)
                                 THEN Append(t.projNames, projName)
                                 ELSE t.projNames]
    ELSE t

\* The boolean EnsureExists returns.
EnsureExistsResult(t, projName) ==
    projName \in DOMAIN t.md

\* Get: the store after the call; the caller reads md[projName] from it.
Get(t, projName) ==
    EnsureExists(t, projName)

\* JobDetailMap.EnsureExists: creates the repository's empty job list.
JobDetailMapEnsureExists(jdm, repoName) ==
    IF repoName \notin DOMAIN jdm THEN MapPut(jdm, repoName, <<>>) ELSE jdm

\* Mutant: the repository name is appended without the strExists test.
EnsureRepo_NoDedup(t, projName, repoName) ==
    LET t1  == Get(t, projName)
        jdm == t1.md[projName]
    IN  IF repoName \notin DOMAIN jdm
        THEN [t1 EXCEPT !.md = MapPut(t1.md, projName, JobDetailMapEnsureExists(jdm, repoName)),
                        !.repoNames = Append(t1.repoNames, repoName)]
        ELSE t1

EnsureRepo(t, projName, repoName) ==
    LET t1  == Get(t, projName)
        jdm == t1.md[projName]
    IN  IF repoName \notin DOMAIN jdm
        THEN [t1 EXCEPT !.md = MapPut(t1.md, projName, JobDetailMapEnsureExists(jdm, repoName)),
                        !.repoNames = IF ~strExists(t1.repoNames, repoName)
                                      THEN Append(t1.repoNames, repoName)
                                      ELSE t1.repoNames]
        ELSE t1

FirstSeen(seen, name) ==
    IF name \in Range(seen) THEN seen ELSE Append(seen, name)

SetStore(t) ==
    /\ md' = t.md
    /\ projNames' = t.projNames
    /\ repoNames' = t.repoNames

CallEnsureExists ==
    /\ pc = "load"
    /\ \E p \in Projects :
        /\ SetStore(EnsureExists(Store, p))
        /\ seenProj' = FirstSeen(seenProj, p)
    /\ UNCHANGED <<nonAligned, output, count, pc, seenRepo, ret, heap, generatorCalls>>

CallGet ==
    /\ pc = "load"
    /\ \E p \in Projects :
        /\ SetStore(Get(Store, p))
        /\ seenProj' = FirstSeen(seenProj, p)
    /\ UNCHANGED <<nonAligned, output, count, pc, seenRepo, ret, heap, generatorCalls>>

CallEnsureRepo ==
    /\ pc = "load"
    /\ \E p \in Projects, r \in Repos :
        /\ SetStore(EnsureRepo(Store, p, r))
        /\ seenProj' = FirstSeen(seenProj, p)
        /\ seenRepo' = FirstSeen(seenRepo, r)
    /\ UNCHANGED <<nonAligned, output, count, pc, ret, heap, generatorCalls>>

TotalJobs ==
    LET cells == {<<p, r>> \in Projects \X Repos : p \in DOMAIN md /\ r \in DOMAIN md[p]}
        RECURSIVE Sum(_)
        Sum(S) == IF S = {} THEN 0
                  ELSE LET c == CHOOSE x \in S : TRUE
                       IN  Len(md[c[1]][c[2]]) + Sum(S \ {c})
    IN  Sum(cells)

\* The loader appends a job kind to the job list of an existing cell.
AddJob ==
    /\ pc = "load"
    /\ TotalJobs < MaxJobs
    /\ \E p \in DOMAIN md :
        \E r \in DOMAIN md[p], j \in StoreJobKinds :
            md' = MapPut(md, p, MapPut(md[p], r, Append(md[p][r], j)))
    /\ UNCHANGED <<projNames, repoNames, nonAligned, output, count, pc, seenProj, seenRepo, ret, heap, generatorCalls>>

AddNonAlignedTest ==
    /\ pc = "load"
    /\ Len(nonAligned) < MaxNonAligned
    /\ \E n \in NonAlignedInputs : nonAligned' = Append(nonAligned, n)
    /\ UNCHANGED <<md, projNames, repoNames, output, count, pc, seenProj, seenRepo, ret, heap, generatorCalls>>

\* ---------------------------------------------------------------------
\* The output sink and the templates
\* ---------------------------------------------------------------------

\* The line sectionName + ":".
SectionHeader(sectionName) ==
    [kind |-> "header", section |-> sectionName]

\* The line baseIndent + "- name: empty".
EmptyEntry ==
    [kind |-> "empty"]

\* The line "- name: " + name + "\n" + baseIndent + "dashboard_tab:".
DashboardHeader(name) ==
    [kind |-> "dashboard", Name |-> name]

\* output.outputConfig writes one line and counts it.
outputConfig(cnt) ==
    cnt + 1

GCSBucket ==
    <<"k","n","a","t","i","v","e","-","p","r","o","w">>

LogsDir ==
    <<"l","o","g","s">>

getGcsLogDir(testGroupName) ==
    GCSBucket \o <<"/">> \o LogsDir \o <<"/">> \o testGroupName

executeTestGroupTemplate(testGroupName, gcsLogDir, extras) ==
    [kind |-> "test_group", TestGroupName |-> testGroupName,
     GcsLogDir |-> gcsLogDir, Extras |-> extras]

executeDashboardTabTemplate(dashboardTabName, testGroupName, baseOptions, extras) ==
    [kind |-> "dashboard_tab", Name |-> dashboardTabName,
     TestGroupName |-> testGroupName, BaseOptions |-> baseOptions, Extras |-> extras]

executeDashboardGroupTemplate(dashboardGroupName, dashboardRepoNames) ==
    [kind |-> "dashboard_group", Name |-> dashboardGroupName,
     RepoNames |-> dashboardRepoNames]

testgridTabGroupByDir ==
    "exclude-filter-by-regex=Overall$&group-by-directory=&expand-groups=&sort-by-name="

testgridTabSortByName ==
    "sort-by-name="

conformanceBaseOptions ==
    "include-filter-by-regex=test/conformance/&sort-by-name="

\* ---------------------------------------------------------------------
\* The policy table and the names
\* ---------------------------------------------------------------------

teamEmail ==
    "serverless-engprod-sea@google.com"

\* The value "\n" + indent spaces + "alert_mail_to_addresses: \"" + mail + "\"".
AlertOptions(indent, mail) ==
    [indent |-> indent, alert_mail_to_addresses |-> mail]

\* quotedEmailPattern.FindStringSubmatch(v)[1]
quotedEmail(v) ==
    v.alert_mail_to_addresses

\* Mutant: dot-release is handled like auto-release and nightly.
getTestgroupExtras_NoDotReleaseStale(projName, jobName) ==
    CASE jobName = s_continuous ->
            IF releaseRegexFindString(projName) # <<>>
            THEN [num_failures_to_alert |-> "3",
                  alert_options |-> AlertOptions(4, teamEmail)]
            ELSE [alert_stale_results_hours |-> "3"]
      [] jobName \in {s_dot_release, s_auto_release, s_nightly} ->
            [num_failures_to_alert |-> "1",
             alert_options |-> AlertOptions(4, teamEmail)]
      [] jobName = s_webhook_apicoverage ->
            [alert_stale_results_hours |-> "48"]
      [] jobName = s_test_coverage ->
            [short_text_metric |-> "coverage"]
      [] OTHER ->
            [alert_stale_results_hours |-> "3"]

getTestgroupExtras(projName, jobName) ==
    CASE jobName = s_continuous ->
            IF releaseRegexFindString(projName) # <<>>
            THEN [num_failures_to_alert |-> "3",
                  alert_options |-> AlertOptions(4, teamEmail)]
            ELSE [alert_stale_results_hours |-> "3"]
      [] jobName \in {s_dot_release, s_auto_release, s_nightly} ->
            IF jobName = s_dot_release
            THEN [num_failures_to_alert |-> "1",
                  alert_options |-> AlertOptions(4, teamEmail),
                  alert_stale_results_hours |-> "170"]
            ELSE [num_failures_to_alert |-> "1",
                  alert_options |-> AlertOptions(4, teamEmail)]
      [] jobName = s_webhook_apicoverage ->
            [alert_stale_results_hours |-> "48"]
      [] jobName = s_test_coverage ->
            [short_text_metric |-> "coverage"]
      [] OTHER ->
            [alert_stale_results_hours |-> "3"]

\* Mutant: the nightly case is missing.
getTestGroupName_NoNightly(repoName, jobName) ==
    ToLower(s_ci \o s_dash \o repoName \o s_dash \o jobName)

getTestGroupName(repoName, jobName) ==
    IF jobName = s_nightly
    THEN ToLower(s_ci \o s_dash \o repoName \o s_dash \o jobName \o s_dash \o s_release)
    ELSE ToLower(s_ci \o s_dash \o repoName \o s_dash \o jobName)

\* ---------------------------------------------------------------------
\* The generators
\* ---------------------------------------------------------------------

\* One iteration of the loop of generateTestGroup.
TestGroupOfJob(projName, projRepoStr, jobName) ==
    LET testGroupName == getTestGroupName(projRepoStr, jobName)
        testGroupNameForGCSLogDir ==
            IF jobName = s_test_coverage
            THEN s_ci \o s_dash \o projRepoStr \o s_dash \o s_go_coverage
            ELSE testGroupName
        gcsLogDir == getGcsLogDir(testGroupNameForGCSLogDir)
        extras == getTestgroupExtras(projName, jobName)
    IN  <<executeTestGroupTemplate(testGroupName, gcsLogDir, extras)>>

generateTestGroup(projName, repoName, jobNames) ==
    LET projRepoStr == buildProjRepoStr(projName, repoName)
    IN  Flatten([i \in 1..Len(jobNames) |->
                    TestGroupOfJob(projName, projRepoStr, jobNames[i])])

\* One iteration of the loop of generateDashboard.
DashboardTabsOfJob(projRepoStr, jobName) ==
    LET testGroupName == getTestGroupName(projRepoStr, jobName)
        noExtras == EmptyMap
    IN  CASE jobName = s_continuous ->
                LET extras == [num_failures_to_alert |-> "3",
                               alert_options |-> AlertOptions(6, teamEmail)]
                IN  <<executeDashboardTabTemplate(s_continuous, testGroupName,
                                                  testgridTabSortByName, extras)>>
                    \o (IF projRepoStr = s_knative_serving
                        THEN <<executeDashboardTabTemplate(s_conformance, testGroupName,
                                                           conformanceBaseOptions, extras)>>
                        ELSE <<>>)
          [] jobName \in {s_dot_release, s_auto_release} ->
                LET extras == [num_failures_to_alert |-> "1",
                               alert_options |-> AlertOptions(6, teamEmail)]
                IN  <<executeDashboardTabTemplate(jobName, testGroupName,
                                                  testgridTabSortByName, extras)>>
          [] jobName = s_webhook_apicoverage ->
                <<executeDashboardTabTemplate(jobName, testGroupName,
                                              testgridTabSortByName, noExtras)>>
          [] jobName = s_nightly ->
                LET extras == [num_failures_to_alert |-> "1",
                               alert_options |-> AlertOptions(6, teamEmail)]
                IN  <<executeDashboardTabTemplate(s_nightly, testGroupName,
                                                  testgridTabSortByName, extras)>>
          [] jobName = s_test_coverage ->
                <<executeDashboardTabTemplate(s_coverage, testGroupName,
                                              testgridTabGroupByDir, noExtras)>>
          [] OTHER ->
                <<executeDashboardTabTemplate(jobName, testGroupName,
                                              testgridTabSortByName, noExtras)>>

\* Mutant: every tab is written with noExtras.
generateDashboard_NoExtras(projName, repoName, jobNames) ==
    LET projRepoStr == buildProjRepoStr(projName, repoName)
        tabs == Flatten([i \in 1..Len(jobNames) |->
                            DashboardTabsOfJob(projRepoStr, jobNames[i])])
    IN  <<DashboardHeader(ToLower(repoName))>>
        \o [i \in 1..Len(tabs) |-> [tabs[i] EXCEPT !.Extras = EmptyMap]]

\* Mutant: the tabs name their test group after the repository alone.
generateDashboard_RepoOnly(projName, repoName, jobNames) ==
    <<DashboardHeader(ToLower(repoName))>>
    \o Flatten([i \in 1..Len(jobNames) |->
                    DashboardTabsOfJob(repoName, jobNames[i])])

generateDashboard(projName, repoName, jobNames) ==
    LET projRepoStr == buildProjRepoStr(projName, repoName)
    IN  <<DashboardHeader(ToLower(repoName))>>
        \o Flatten([i \in 1..Len(jobNames) |->
                        DashboardTabsOfJob(projRepoStr, jobNames[i])])

\* The call generator(projName, repoName, jobNames) of a testgridEntityGenerator.
CallGenerator(generator, projName, repoName, jobNames) ==
    CASE generator = "generateTestGroup" -> generateTestGroup(projName, repoName, jobNames)
      [] generator = "generateDashboard" -> generateDashboard(projName, repoName, jobNames)

\* ---------------------------------------------------------------------
\* The passes over the store; each returns the lines it writes
\* ---------------------------------------------------------------------

\* Mutant: released projects are walked although skipReleasedProj is set.
SectionCalls_NoSkip(t, skipReleasedProj) ==
    Flatten([i \in 1..Len(t.projNames) |->
        LET projName == t.projNames[i]
            repos == t.md[projName]
        IN  Flatten([j \in 1..Len(t.repoNames) |->
                LET repoName == t.repoNames[j]
                IN  IF repoName \in DOMAIN repos
                    THEN <<[projName |-> projName, repoName |-> repoName,
                            jobNames |-> repos[repoName]]>>
                    ELSE <<>>])])

\* The nested walk of generateTestGridSection: the arguments of the calls
\* of the generator, in the order of the calls.
SectionCalls(t, skipReleasedProj) ==
    Flatten([i \in 1..Len(t.projNames) |->
        LET projName == t.projNames[i]
        IN  IF skipReleasedProj /\ isReleased(projName)
            THEN <<>>
            ELSE LET repos == t.md[projName]
                 IN  Flatten([j \in 1..Len(t.repoNames) |->
                        LET repoName == t.repoNames[j]
                        IN  IF repoName \in DOMAIN repos
                            THEN <<[projName |-> projName, repoName |-> repoName,
                                    jobNames |-> repos[repoName]]>>
                            ELSE <<>>])])

\* What the calls of the walk write.
SectionWalk(t, generator, skipReleasedProj) ==
    LET calls == SectionCalls(t, skipReleasedProj)
    IN  Flatten([k \in 1..Len(calls) |->
            CallGenerator(generator, calls[k].projName, calls[k].repoName,
                          calls[k].jobNames)])

generateTestGridSection(t, cnt, sectionName, generator, skipReleasedProj) ==
    LET oldCount  == cnt
        cntHeader == outputConfig(cnt)
        walk      == SectionWalk(t, generator, skipReleasedProj)
        cntWalk   == cntHeader + Len(walk)
    IN  <<SectionHeader(sectionName)>> \o walk
        \o (IF cntWalk = oldCount THEN <<EmptyEntry>> ELSE <<>>)

generateNonAlignedTestGroups(na) ==
    [i \in 1..Len(na) |->
        executeTestGroupTemplate(na[i].CIJobName, getGcsLogDir(na[i].CIJobName), na[i].Extra)]

RECURSIVE CollectByDashboardName(_, _, _)
\* The first loop of generateNonAlignedDashboards: keys and dn after the
\* entries from index i on.
CollectByDashboardName(na, i, acc) ==
    IF i > Len(na) THEN acc
    ELSE LET tg     == na[i]
             exists == tg.DashboardName \in DOMAIN acc.dn
             dn1    == IF ~exists THEN MapPut(acc.dn, tg.DashboardName, <<>>) ELSE acc.dn
             keys1  == IF ~exists THEN Append(acc.keys, tg.DashboardName) ELSE acc.keys
             dn2    == MapPut(dn1, tg.DashboardName, Append(dn1[tg.DashboardName], tg))
         IN  CollectByDashboardName(na, i + 1, [keys |-> keys1, dn |-> dn2])

generateNonAlignedDashboards(na) ==
    LET c == CollectByDashboardName(na, 1, [keys |-> <<>>, dn |-> EmptyMap])
    IN  Flatten([k \in 1..Len(c.keys) |->
            LET name == c.keys[k]
                tgs  == c.dn[name]
            IN  <<DashboardHeader(name)>>
                \o [x \in 1..Len(tgs) |->
                       executeDashboardTabTemplate(tgs[x].HumanTabName, tgs[x].CIJobName,
                                                   tgs[x].BaseOptions, EmptyMap)]])

generateDashboardsForReleases(t) ==
    Flatten([i \in 1..Len(t.projNames) |->
        LET projName == t.projNames[i]
        IN  IF ~isReleased(projName)
            THEN <<>>
            ELSE LET repos == t.md[projName]
                 IN  <<DashboardHeader(projName)>>
                     \o Flatten([j \in 1..Len(t.repoNames) |->
                          LET repoName == t.repoNames[j]
                          IN  IF repoName \in DOMAIN repos
                              THEN [x \in 1..Len(repos[repoName]) |->
                                      LET jobName == repos[repoName][x]
                                          extras == [num_failures_to_alert |-> "3",
                                                     alert_options |-> AlertOptions(6, teamEmail)]
                                          testGroupName ==
                                              getTestGroupName(buildProjRepoStr(projName, repoName), jobName)
                                      IN  executeDashboardTabTemplate(repoName \o s_dash \o jobName,
                                                                      testGroupName,
                                                                      testgridTabSortByName, extras)]
                              ELSE <<>>])])

RECURSIVE CollectByDashboardGroup(_, _, _)
\* The first loop of generateNonAlignedDashboardGroups.
CollectByDashboardGroup(na, i, acc) ==
    IF i > Len(na) THEN acc
    ELSE LET tg     == na[i]
             exists == tg.DashboardGroup \in DOMAIN acc.dg
             dg1    == IF ~exists THEN MapPut(acc.dg, tg.DashboardGroup, <<>>) ELSE acc.dg
             keys1  == IF ~exists THEN Append(acc.keys, tg.DashboardGroup) ELSE acc.keys
             dg2    == IF ~strExists(dg1[tg.DashboardGroup], tg.DashboardName)
                       THEN MapPut(dg1, tg.DashboardGroup,
                                   Append(dg1[tg.DashboardGroup], tg.DashboardName))
                       ELSE dg1
         IN  CollectByDashboardGroup(na, i + 1, [keys |-> keys1, dg |-> dg2])

\* Mutant: one group per entry, without collecting by DashboardGroup.
generateNonAlignedDashboardGroups_PerEntry(na) ==
    [i \in 1..Len(na) |->
        executeDashboardGroupTemplate(na[i].DashboardGroup, <<na[i].DashboardName>>)]

generateNonAlignedDashboardGroups(na) ==
    LET c == CollectByDashboardGroup(na, 1, [keys |-> <<>>, dg |-> EmptyMap])
    IN  [k \in 1..Len(c.keys) |->
            executeDashboardGroupTemplate(c.keys[k], c.dg[c.keys[k]])]

generateDashboardGroups(t) ==
    <<SectionHeader("dashboard_groups")>>
    \o Flatten([i \in 1..Len(t.projNames) |->
        LET projName == t.projNames[i]
        IN  IF isReleased(projName)
            THEN <<>>
            ELSE LET repos == t.md[projName]
                     present == {j \in 1..Len(t.repoNames) : t.repoNames[j] \in DOMAIN repos}
                     dashboardRepoNames ==
                         Flatten([j \in 1..Len(t.repoNames) |->
                                     IF j \in present THEN <<t.repoNames[j]>> ELSE <<>>])
                 IN  <<executeDashboardGroupTemplate(projName, dashboardRepoNames)>>])

\* ---------------------------------------------------------------------
\* The generation run: the passes in the order the tool calls them
\* ---------------------------------------------------------------------

Emit(lines) ==
    /\ output' = output \o lines
    /\ count' = count + Len(lines)

RunTestGroupsSection ==
    /\ pc = "load"
    /\ Emit(generateTestGridSection(Store, count, "test_groups", "generateTestGroup", FALSE))
    /\ generatorCalls' = SectionCalls(Store, FALSE)
    /\ pc' = "test_groups"
    /\ UNCHANGED <<storeVars, seenProj, seenRepo, ret, heap>>

RunNonAlignedTestGroups ==
    /\ pc = "test_groups"
    /\ Emit(generateNonAlignedTestGroups(nonAligned))
    /\ pc' = "test_groups_done"
    /\ UNCHANGED <<storeVars, seenProj, seenRepo, ret, heap, generatorCalls>>

RunDashboardsSection ==
    /\ pc = "test_groups_done"
    /\ Emit(generateTestGridSection(Store, count, "dashboards", "generateDashboard", TRUE))
    /\ generatorCalls' = SectionCalls(Store, TRUE)
    /\ pc' = "dashboards"
    /\ UNCHANGED <<storeVars, seenProj, seenRepo, ret, heap>>

RunDashboardsForReleases ==
    /\ pc = "dashboards"
    /\ Emit(generateDashboardsForReleases(Store))
    /\ pc' = "dashboards_releases"
    /\ UNCHANGED <<storeVars, seenProj, seenRepo, ret, heap, generatorCalls>>

RunNonAlignedDashboards ==
    /\ pc = "dashboards_releases"
    /\ Emit(generateNonAlignedDashboards(nonAligned))
    /\ pc' = "dashboards_done"
    /\ UNCHANGED <<storeVars, seenProj, seenRepo, ret, heap, generatorCalls>>

RunDashboardGroups ==
    /\ pc = "dashboards_done"
    /\ Emit(generateDashboardGroups(Store))
    /\ pc' = "dashboard_groups"
    /\ UNCHANGED <<storeVars, seenProj, seenRepo, ret, heap, generatorCalls>>

RunNonAlignedDashboardGroups ==
    /\ pc = "dashboard_groups"
    /\ Emit(generateNonAlignedDashboardGroups(nonAligned))
    /\ pc' = "done"
    /\ UNCHANGED <<storeVars, seenProj, seenRepo, ret, heap, generatorCalls>>

Next ==
    \/ CallEnsureExists
    \/ CallGet
    \/ CallEnsureRepo
    \/ AddJob
    \/ AddNonAlignedTest
    \/ RunTestGroupsSection
    \/ RunNonAlignedTestGroups
    \/ RunDashboardsSection
    \/ RunDashboardsForReleases
    \/ RunNonAlignedDashboards
    \/ RunDashboardGroups
    \/ RunNonAlignedDashboardGroups

Spec ==
    Init /\ [][Next]_vars

\* ---------------------------------------------------------------------
\* pkg/gke/request.go: the cluster request builder
\* ---------------------------------------------------------------------

defaultGKEVersion ==
    "latest"

\* A nil pointer is the empty sequence, a pointer to v is <<v>>.
Nil ==
    <<>>

\* The addons configuration of the given addon list.
GetAddonsConfig(addons) ==
    Range(addons)

\* The error the validation of NewCreateClusterRequest returns, "" if none.
RequestError(request) ==
    IF request.ClusterName = "" THEN "cluster name cannot be empty"
    ELSE IF request.MinNodes <= 0 THEN "min nodes must be larger than 1"
    ELSE IF request.MinNodes > request.MaxNodes THEN "min nodes cannot be larger than max nodes"
    ELSE IF request.NodeType = "" THEN "node type cannot be empty"
    ELSE IF request.EnableWorkloadIdentity /\ request.Project = ""
         THEN "project cannot be empty if you want Workload Identity"
    ELSE IF request.GKEVersion # "" /\ request.ReleaseChannel # ""
         THEN "can only specify one of GKE version or release channel (not both)"
    ELSE ""

\* The CreateClusterRequest built from a request that passed the validation.
BuildCreateClusterRequest(request) ==
    [Cluster |->
        [NodePools |->
            << [Name |-> "default-pool",
                InitialNodeCount |-> request.MinNodes,
                Autoscaling |-> [Enabled |-> TRUE,
                                 MinNodeCount |-> request.MinNodes,
                                 MaxNodeCount |-> request.MaxNodes],
                Config |-> [MachineType |-> request.NodeType,
                            OauthScopes |-> <<"CloudPlatformScope">>,
                            ServiceAccount |-> IF request.ServiceAccount # ""
                                               THEN request.ServiceAccount ELSE ""]] >>,
         Name |-> request.ClusterName,
         AddonsConfig |-> GetAddonsConfig(request.Addons),
         MasterAuth |-> [Username |-> "admin"],
         WorkloadIdentityConfig |->
            IF request.EnableWorkloadIdentity
            THEN <<[WorkloadPool |-> <<request.Project, ".svc.id.goog">>]>>
            ELSE Nil,
         ReleaseChannel |->
            IF request.ReleaseChannel # ""
            THEN <<[Channel |-> request.ReleaseChannel]>>
            ELSE Nil,
         InitialClusterVersion |->
            IF request.ReleaseChannel # "" THEN ""
            ELSE IF request.GKEVersion # "" THEN request.GKEVersion
            ELSE defaultGKEVersion]]

\* Mutant: the check that GKE version and release channel exclude each other is missing.
NewCreateClusterRequest_NoExclusive(request) ==
    IF RequestError(request) \notin
          {"", "can only specify one of GKE version or release channel (not both)"}
    THEN [ccr |-> Nil, err |-> RequestError(request)]
    ELSE [ccr |-> <<BuildCreateClusterRequest(request)>>, err |-> ""]

NewCreateClusterRequest(request) ==
    IF RequestError(request) # ""
    THEN [ccr |-> Nil, err |-> RequestError(request)]
    ELSE [ccr |-> <<BuildCreateClusterRequest(request)>>, err |-> ""]

Requests ==
    [GCPCredentialFile : {"cred.json"},
     Project : {"", "proj"},
     GKEVersion : {"", "1.20"},
     ReleaseChannel : {"", "rapid"},
     ClusterName : {"", "c1"},
     MinNodes : -1..MaxNodeArg,
     MaxNodes : -1..MaxNodeArg,
     NodeType : {"", "e2-standard-4"},
     Region : {"us-west1"},
     Zone : {""},
     Addons : {<<>>, <<"istio">>},
     EnableWorkloadIdentity : BOOLEAN,
     ServiceAccount : {"", "sa"}]

\* ---------------------------------------------------------------------
\* Calls of the functions on their own: one call per run, on the state
\* after construction
\* ---------------------------------------------------------------------

ExtrasProjects ==
    {in_knative, in_knative_v1_2, s_knative_serving, in_knative_serving_v1_2}

NameRepos ==
    {in_Serving, in_Eventing, in_serving, s_knative_serving}

JobLists ==
    UNION {[1..n -> AllJobKinds] : n \in 0..MaxJobList}

CallGetTestgroupExtras ==
    /\ ret = NoCall
    /\ \E p \in ExtrasProjects, j \in AllJobKinds :
          ret' = [fn |-> "getTestgroupExtras", projName |-> p, jobName |-> j,
                  result |-> getTestgroupExtras(p, j)]
    /\ UNCHANGED <<storeVars, output, count, pc, seenProj, seenRepo, heap, generatorCalls>>

CallGetTestGroupName ==
    /\ ret = NoCall
    /\ \E r \in NameRepos, j \in AllJobKinds :
          ret' = [fn |-> "getTestGroupName", repoName |-> r, jobName |-> j,
                  result |-> getTestGroupName(r, j)]
    /\ UNCHANGED <<storeVars, output, count, pc, seenProj, seenRepo, heap, generatorCalls>>

\* generateDashboard writing to a fresh output.
CallGenerateDashboard ==
    /\ ret = NoCall
    /\ \E p \in Projects, r \in Repos, jobs \in JobLists :
          /\ output' = generateDashboard(p, r, jobs)
          /\ count' = Len(generateDashboard(p, r, jobs))
          /\ ret' = [fn |-> "generateDashboard", projName |-> p, repoName |-> r,
                     jobNames |-> jobs]
    /\ UNCHANGED <<storeVars, pc, seenProj, seenRepo, heap, generatorCalls>>

CallNewCreateClusterRequest ==
    /\ ret = NoCall
    /\ \E request \in Requests :
          ret' = [fn |-> "NewCreateClusterRequest", request |-> request,
                  result |-> NewCreateClusterRequest(request)]
    /\ UNCHANGED <<storeVars, output, count, pc, seenProj, seenRepo, heap, generatorCalls>>

\* A nil slice; a slice is the address of its backing array and its length.
NilSlice ==
    [array |-> 0, len |-> 0]

\* The elements of a slice.
SliceContents(h, slice) ==
    IF slice.len = 0 THEN <<>> ELSE SubSeq(h[slice.array], 1, slice.len)

\* Request.DeepCopy: the struct literal names every field but
\* GCPCredentialFile, which keeps its zero value; Addons is assigned as a
\* slice, so the copy refers to the backing array of the original.
DeepCopy(r) ==
    [GCPCredentialFile |-> "",
     Project |-> r.Project,
     GKEVersion |-> r.GKEVersion,
     ReleaseChannel |-> r.ReleaseChannel,
     ClusterName |-> r.ClusterName,
     MinNodes |-> r.MinNodes,
     MaxNodes |-> r.MaxNodes,
     NodeType |-> r.NodeType,
     Region |-> r.Region,
     Zone |-> r.Zone,
     Addons |-> r.Addons,
     EnableWorkloadIdentity |-> r.EnableWorkloadIdentity,
     ServiceAccount |-> r.ServiceAccount]

\* The requests handed to DeepCopy, their Addons given by their elements.
CopyRequests ==
    [GCPCredentialFile : {"", "cred.json"},
     Project : {"", "proj"},
     GKEVersion : {"1.20"},
     ReleaseChannel : {""},
     ClusterName : {"c1"},
     MinNodes : 1..MaxNodeArg,
     MaxNodes : {MaxNodeArg},
     NodeType : {"e2-standard-4"},
     Region : {"us-west1"},
     Zone : {"", "us-west1-a"},
     Addons : {<<>>, <<"istio">>, <<"istio", "hpa">>},
     EnableWorkloadIdentity : BOOLEAN,
     ServiceAccount : {"", "sa"}]

\* The caller builds a request, whose Addons array is at address 1, and
\* copies it.
CallDeepCopy ==
    /\ ret = NoCall
    /\ \E q \in CopyRequests :
          LET slice == IF q.Addons = <<>> THEN NilSlice
                       ELSE [array |-> 1, len |-> Len(q.Addons)]
              r == [q EXCEPT !.Addons = slice]
          IN  /\ heap' = IF q.Addons = <<>> THEN heap ELSE MapPut(heap, 1, q.Addons)
              /\ ret' = [fn |-> "DeepCopy", request |-> r, result |-> DeepCopy(r),
                         addons |-> q.Addons]
    /\ UNCHANGED <<storeVars, output, count, pc, seenProj, seenRepo, generatorCalls>>

\* The caller assigns to an element of the Addons of the copy.
SetCopyAddon ==
    /\ ret.fn = "DeepCopy"
    /\ ret.result.Addons.len > 0
    /\ \E i \in 1..ret.result.Addons.len :
          heap' = [heap EXCEPT ![ret.result.Addons.array][i] = "changed"]
    /\ ret' = [ret EXCEPT !.fn = "SetCopyAddon"]
    /\ UNCHANGED <<storeVars, output, count, pc, seenProj, seenRepo, generatorCalls>>

NextCalls ==
    \/ CallGetTestgroupExtras
    \/ CallGetTestGroupName
    \/ CallGenerateDashboard
    \/ CallNewCreateClusterRequest
    \/ CallDeepCopy
    \/ SetCopyAddon

SpecCalls ==
    Init /\ [][NextCalls]_vars

\* ---------------------------------------------------------------------
\* Properties
\* ---------------------------------------------------------------------

NoDup(s) ==
    \A i, j \in 1..Len(s) : s[i] = s[j] => i = j

\* The position of the first element of s that satisfies being equal to x.
FirstIndex(s, x) ==
    CHOOSE i \in 1..Len(s) : s[i] = x /\ \A k \in 1..(i - 1) : s[k] # x

Populated ==
    {c \in Projects \X Repos : c[1] \in DOMAIN md /\ c[2] \in DOMAIN md[c[1]]}

OutputOfKind(kind) ==
    {i \in 1..Len(output) : output[i].kind = kind}

\* C1: when the generation run is over, every section header in the output
\* is followed by at least one entry (a real one or "- name: empty"): no
\* header is the last line or is directly followed by the next header.
C1_NoEmptySection ==
    pc = "done" =>
        \A i \in OutputOfKind("header") :
            i < Len(output) /\ output[i + 1].kind # "header"

\* C2: generateTestGridSection on an empty store writes the section
\* header, then exactly one "- name: empty" entry, and nothing else.
C2_EmptyStorePlaceholder ==
    (pc = "test_groups" /\ md = EmptyMap /\ projNames = <<>> /\ repoNames = <<>>) =>
        /\ Len(output) = 2
        /\ output[1].kind = "header"
        /\ output[2].kind = "empty"

\* C3: projNames and repoNames hold no name twice and list the names in the
\* order in which each was first passed to EnsureExists, Get or EnsureRepo.
C3_FirstSeenOrder ==
    /\ NoDup(projNames)
    /\ NoDup(repoNames)
    /\ projNames = seenProj
    /\ repoNames = seenRepo

\* Both projects hold the repository that was passed first, so it was passed
\* twice, and the names were not passed in alphabetical order.
C3_Witness ==
    /\ projNames = <<in_knative_v1_2, in_knative>>
    /\ repoNames = <<in_serving, in_Eventing>>
    /\ in_serving \in DOMAIN md[in_knative]
    /\ in_serving \in DOMAIN md[in_knative_v1_2]

\* C4: every key of md is in projNames and every key of a project's
\* JobDetailMap is in repoNames, also for a project created by a lookup.
C4_KeysListed ==
    \A p \in DOMAIN md :
        /\ strExists(projNames, p)
        /\ \A r \in DOMAIN md[p] : strExists(repoNames, r)

\* One project was created by a lookup and has no repository, the other
\* has two.
C4_Witness ==
    /\ DOMAIN md = Projects
    /\ DOMAIN md[in_knative] = {}
    /\ DOMAIN md[in_knative_v1_2] = Repos

\* The job kind a tab of generateDashboard stands for.
JobKindOfTab(name) ==
    IF name = s_conformance THEN s_continuous
    ELSE IF name = s_coverage THEN s_test_coverage
    ELSE name

\* Two extras maps that have the same keys and values, alert_options being
\* compared by the email address it embeds.
SameExtras(a, b) ==
    /\ DOMAIN a = DOMAIN b
    /\ \A k \in DOMAIN a :
          IF k = "alert_options" THEN quotedEmail(a[k]) = quotedEmail(b[k])
          ELSE a[k] = b[k]

RestrictTo(f, keys) ==
    [k \in (DOMAIN f) \cap keys |-> f[k]]

\* C5 as stated: for a non-released project, the extras of every tab that
\* generateDashboard writes equal getTestgroupExtras(project, job kind).
C5_SamePolicyTable ==
    (ret.fn = "generateDashboard" /\ ~isReleased(ret.projName)) =>
        \A i \in OutputOfKind("dashboard_tab") :
            SameExtras(output[i].Extras,
                       getTestgroupExtras(ret.projName, JobKindOfTab(output[i].Name)))

\* C5 as amended: for a non-released project, a tab of dot-release,
\* auto-release or nightly carries what getTestgroupExtras returns for the
\* job kind under the keys num_failures_to_alert and alert_options (same
\* email) and nothing else; a tab of continuous carries num_failures_to_alert
\* 3 and the alert_options email; every other tab carries no extras.
C5_TabExtras ==
    (ret.fn = "generateDashboard" /\ ~isReleased(ret.projName)) =>
        \A i \in OutputOfKind("dashboard_tab") :
            LET j == JobKindOfTab(output[i].Name)
                e == output[i].Extras
            IN  IF j = s_continuous
                THEN /\ DOMAIN e = {"num_failures_to_alert", "alert_options"}
                     /\ e.num_failures_to_alert = "3"
                     /\ quotedEmail(e.alert_options) = teamEmail
                ELSE IF j \in {s_dot_release, s_auto_release, s_nightly}
                THEN SameExtras(e, RestrictTo(getTestgroupExtras(ret.projName, j),
                                              {"num_failures_to_alert", "alert_options"}))
                ELSE DOMAIN e = {}

\* A dashboard of a non-released project with a dot-release tab and a
\* coverage tab.
C5_Witness ==
    /\ ret.fn = "generateDashboard"
    /\ ret.projName = in_knative
    /\ ret.jobNames = <<s_dot_release, s_test_coverage>>
    /\ Len(output) = 3
    /\ output[2].kind = "dashboard_tab"
    /\ output[3].kind = "dashboard_tab"

\* C6: getTestgroupExtras returns the extras of the policy table.
C6_ExtrasTable ==
    ret.fn = "getTestgroupExtras" =>
        LET e == ret.result
            j == ret.jobName
            withAlert(n) ==
                /\ e.num_failures_to_alert = n
                /\ quotedEmail(e.alert_options) = teamEmail
        IN  /\ (j = s_continuous /\ isReleased(ret.projName)) =>
                /\ DOMAIN e = {"num_failures_to_alert", "alert_options"}
                /\ withAlert("3")
            /\ (j = s_continuous /\ ~isReleased(ret.projName)) =>
                /\ DOMAIN e = {"alert_stale_results_hours"}
                /\ e.alert_stale_results_hours = "3"
            /\ (j = s_dot_release) =>
                /\ DOMAIN e = {"num_failures_to_alert", "alert_options",
                               "alert_stale_results_hours"}
                /\ withAlert("1")
                /\ e.alert_stale_results_hours = "170"
            /\ (j \in {s_auto_release, s_nightly}) =>
                /\ DOMAIN e = {"num_failures_to_alert", "alert_options"}
                /\ withAlert("1")
            /\ (j = s_webhook_apicoverage) =>
                /\ DOMAIN e = {"alert_stale_results_hours"}
                /\ e.alert_stale_results_hours = "48"
            /\ (j = s_test_coverage) =>
                /\ DOMAIN e = {"short_text_metric"}
                /\ e.short_text_metric = "coverage"
            /\ (j \notin {s_continuous, s_dot_release, s_auto_release, s_nightly,
                          s_webhook_apicoverage, s_test_coverage}) =>
                /\ DOMAIN e = {"alert_stale_results_hours"}
                /\ e.alert_stale_results_hours = "3"
            /\ (ret.projName = in_knative_serving_v1_2 /\ j = s_continuous) =>
                /\ "num_failures_to_alert" \in DOMAIN e
                /\ e.num_failures_to_alert = "3"
            /\ (ret.projName = s_knative_serving /\ j = s_continuous) =>
                DOMAIN e = {"alert_stale_results_hours"}

\* The dot-release call, which alone sets alert_stale_results_hours to 170.
C6_Witness ==
    /\ ret.fn = "getTestgroupExtras"
    /\ ret.projName = in_knative_serving_v1_2
    /\ ret.jobName = s_dot_release
    /\ "alert_stale_results_hours" \in DOMAIN ret.result

\* res is s with every upper-case letter replaced by its lower-case letter.
IsLowerOf(res, s) ==
    /\ Len(res) = Len(s)
    /\ \A i \in 1..Len(s) :
          IF \E k \in 1..Len(UpperLetters) : UpperLetters[k] = s[i]
          THEN \E k \in 1..Len(UpperLetters) :
                  UpperLetters[k] = s[i] /\ LowerLetters[k] = res[i]
          ELSE res[i] = s[i]

\* C7 as stated: getTestGroupName returns the lowercased "{repo}-{jobKind}",
\* or "{repo}-nightly-release" for nightly, with nothing added in front.
C7_GroupName ==
    ret.fn = "getTestGroupName" =>
        /\ IsLowerOf(ret.result,
                     IF ret.jobName = s_nightly
                     THEN ret.repoName \o s_dash \o s_nightly \o s_dash \o s_release
                     ELSE ret.repoName \o s_dash \o ret.jobName)
        /\ (ret.repoName = in_Serving /\ ret.jobName = s_nightly) =>
                ret.result = x_serving_nightly_release
        /\ (ret.repoName = in_Eventing /\ ret.jobName = s_continuous) =>
                ret.result = x_eventing_continuous

\* C7 as amended: getTestGroupName returns the lowercased
\* "ci-{repo}-{jobKind}", or "ci-{repo}-nightly-release" for nightly.
C7_GroupNameCi ==
    ret.fn = "getTestGroupName" =>
        /\ IsLowerOf(ret.result,
                     IF ret.jobName = s_nightly
                     THEN s_ci \o s_dash \o ret.repoName \o s_dash \o s_nightly
                          \o s_dash \o s_release
                     ELSE s_ci \o s_dash \o ret.repoName \o s_dash \o ret.jobName)
        /\ (ret.repoName = in_Serving /\ ret.jobName = s_nightly) =>
                ret.result = x_ci_serving_nightly_release
        /\ (ret.repoName = in_Eventing /\ ret.jobName = s_continuous) =>
                ret.result = x_ci_eventing_continuous

C7_Witness ==
    /\ ret.fn = "getTestGroupName"
    /\ ret.repoName = in_Serving
    /\ ret.jobName = s_nightly
    /\ ret.result = x_ci_serving_nightly_release

\* The store that holds the one cell (projName, repoName) with one job.
OneCellStore(projName, repoName, jobName) ==
    [md |-> MapPut(EmptyMap, projName, MapPut(EmptyMap, repoName, <<jobName>>)),
     projNames |-> <<projName>>,
     repoNames |-> <<repoName>>]

\* The tabs the dashboard passes write for one job of a cell.
TabsOfCellJob(projName, repoName, jobName) ==
    IF isReleased(projName)
    THEN Tail(generateDashboardsForReleases(OneCellStore(projName, repoName, jobName)))
    ELSE Tail(generateDashboard(projName, repoName, <<jobName>>))

\* C8: when the run is over, for every populated cell and every job of its
\* list, the test group that generateTestGroup writes and the tabs that
\* generateDashboard (generateDashboardsForReleases for a released project)
\* writes for that job are in the output and carry the same test group name;
\* and every tab of the output names a test group of the output.
C8_SameGroupName ==
    pc = "done" =>
        /\ \A c \in Populated :
            \A x \in 1..Len(md[c[1]][c[2]]) :
                LET jobName == md[c[1]][c[2]][x]
                    tg   == generateTestGroup(c[1], c[2], <<jobName>>)[1]
                    tabs == TabsOfCellJob(c[1], c[2], jobName)
                IN  /\ \E i \in OutputOfKind("test_group") : output[i] = tg
                    /\ Len(tabs) >= 1
                    /\ \A k \in 1..Len(tabs) :
                          /\ tabs[k].TestGroupName = tg.TestGroupName
                          /\ \E i \in OutputOfKind("dashboard_tab") : output[i] = tabs[k]
        /\ \A i \in OutputOfKind("dashboard_tab") :
              \E k \in OutputOfKind("test_group") :
                  output[k].TestGroupName = output[i].TestGroupName

\* The run is over for a store whose cell (knative, serving) has a nightly
\* job: the test group and the tab are both in the output.
C8_Witness ==
    /\ pc = "done"
    /\ in_knative \in DOMAIN md
    /\ in_serving \in DOMAIN md[in_knative]
    /\ md[in_knative][in_serving] = <<s_nightly>>
    /\ OutputOfKind("dashboard_tab") # {}
    /\ OutputOfKind("test_group") # {}

\* The groups that generateNonAlignedDashboardGroups wrote: the dashboard
\* groups of the output that are named after a DashboardGroup (no project
\* of the inputs has such a name).
NonAlignedGroupsWritten ==
    SelectSeq(output,
              LAMBDA it : /\ it.kind = "dashboard_group"
                          /\ \E i \in 1..Len(nonAligned) :
                                nonAligned[i].DashboardGroup = it.Name)

\* The positions of the entries with the given DashboardGroup.
EntriesOfGroup(g) ==
    {i \in 1..Len(nonAligned) : nonAligned[i].DashboardGroup = g}

\* C9: generateNonAlignedDashboardGroups writes one group per distinct
\* DashboardGroup, in first-seen order, whose members are the distinct
\* DashboardNames seen under it, each once and in first-seen order.
C9_GroupsFirstSeen ==
    pc = "done" =>
        LET gs    == NonAlignedGroupsWritten
            names == [i \in 1..Len(gs) |-> gs[i].Name]
            all   == [i \in 1..Len(nonAligned) |-> nonAligned[i].DashboardGroup]
        IN  /\ NoDup(names)
            /\ Range(names) = Range(all)
            /\ \A a, b \in 1..Len(gs) :
                  a < b => FirstIndex(all, names[a]) < FirstIndex(all, names[b])
            /\ \A a \in 1..Len(gs) :
                  LET mem  == gs[a].RepoNames
                      ents == EntriesOfGroup(names[a])
                      firstAt(n) ==
                          CHOOSE i \in ents :
                              /\ nonAligned[i].DashboardName = n
                              /\ \A k \in ents :
                                    nonAligned[k].DashboardName = n => i <= k
                  IN  /\ NoDup(mem)
                      /\ Range(mem) = {nonAligned[i].DashboardName : i \in ents}
                      /\ \A x, y \in 1..Len(mem) :
                            x < y => firstAt(mem[x]) < firstAt(mem[y])

\* Two entries share a DashboardGroup under different DashboardNames and
\* the one group written lists both.
C9_Witness ==
    /\ pc = "done"
    /\ Len(nonAligned) = 2
    /\ nonAligned[1].DashboardGroup = nonAligned[2].DashboardGroup
    /\ nonAligned[1].DashboardName # nonAligned[2].DashboardName
    /\ Len(NonAlignedGroupsWritten) = 1
    /\ NonAlignedGroupsWritten[1].RepoNames =
          <<nonAligned[1].DashboardName, nonAligned[2].DashboardName>>

\* The request fails one of the six validations.
Rejected(q) ==
    \/ q.ClusterName = ""
    \/ q.MinNodes <= 0
    \/ q.MinNodes > q.MaxNodes
    \/ q.NodeType = ""
    \/ q.EnableWorkloadIdentity /\ q.Project = ""
    \/ q.GKEVersion # "" /\ q.ReleaseChannel # ""

\* C10: NewCreateClusterRequest returns an error and no request exactly for
\* the rejected inputs; for the others it returns no error and a request with
\* exactly one node pool, default-pool, autoscaled between MinNodes and
\* MaxNodes.
C10_ValidateAndBuild ==
    ret.fn = "NewCreateClusterRequest" =>
        LET q   == ret.request
            res == ret.result
        IN  /\ Rejected(q) <=> (res.err # "" /\ Len(res.ccr) = 0)
            /\ ~Rejected(q) =>
                /\ res.err = ""
                /\ Len(res.ccr) = 1
                /\ LET pools == res.ccr[1].Cluster.NodePools
                   IN  /\ Len(pools) = 1
                       /\ pools[1].Name = "default-pool"
                       /\ pools[1].Autoscaling.Enabled
                       /\ pools[1].Autoscaling.MinNodeCount = q.MinNodes
                       /\ pools[1].Autoscaling.MaxNodeCount = q.MaxNodes

\* A valid request with a GKE version and no release channel was built.
C10_Witness ==
    /\ ret.fn = "NewCreateClusterRequest"
    /\ ret.request.MinNodes = 1
    /\ ret.request.MaxNodes = 2
    /\ ret.request.GKEVersion # ""
    /\ ret.result.err = ""
    /\ Len(ret.result.ccr) = 1

RequestFields ==
    {"GCPCredentialFile", "Project", "GKEVersion", "ReleaseChannel", "ClusterName",
     "MinNodes", "MaxNodes", "NodeType", "Region", "Zone", "EnableWorkloadIdentity",
     "ServiceAccount"}

\* C11: the copy DeepCopy returns has every field (GCPCredentialFile
\* included) equal to the field of the original, and shares no mutable
\* state with it: its Addons have the elements of the original's but another
\* backing array, and a later assignment to an element of the copy's Addons
\* leaves the elements of the original's Addons as they were.
C11_DeepCopy ==
    ret.fn \in {"DeepCopy", "SetCopyAddon"} =>
        /\ \A f \in RequestFields : ret.result[f] = ret.request[f]
        /\ ret.result.Addons.len = ret.request.Addons.len
        /\ ret.fn = "DeepCopy" =>
              SliceContents(heap, ret.result.Addons) = ret.addons
        /\ ret.request.Addons.len > 0 =>
              ret.result.Addons.array # ret.request.Addons.array
        /\ SliceContents(heap, ret.request.Addons) = ret.addons

\* The calls are the walk of the store: each call is for a populated cell
\* of a project that is not skipped and passes the job list of the cell,
\* each such cell has exactly one call, and the calls follow projNames and,
\* within a project, repoNames.
WalkOfStore(calls, skipReleasedProj) ==
    /\ \A k \in 1..Len(calls) :
          /\ <<calls[k].projName, calls[k].repoName>> \in Populated
          /\ ~(skipReleasedProj /\ isReleased(calls[k].projName))
          /\ calls[k].jobNames = md[calls[k].projName][calls[k].repoName]
    /\ \A c \in Populated :
          ~(skipReleasedProj /\ isReleased(c[1])) =>
              Cardinality({k \in 1..Len(calls) :
                              calls[k].projName = c[1] /\ calls[k].repoName = c[2]}) = 1
    /\ \A a, b \in 1..Len(calls) :
          a < b =>
              LET pa == FirstIndex(projNames, calls[a].projName)
                  pb == FirstIndex(projNames, calls[b].projName)
              IN  \/ pa < pb
                  \/ /\ pa = pb
                     /\ FirstIndex(repoNames, calls[a].repoName)
                            < FirstIndex(repoNames, calls[b].repoName)

\* C12: a step of generateTestGridSection calls the generator exactly once
\* for each populated cell of a project that is not skipped, in
\* project-major order after projNames and repoNames, with the job list of
\* the cell, never for a released project when skipReleasedProj is set, and
\* leaves md, projNames, repoNames and nonAligned unchanged.
C12_WalkCalls ==
    [][ ((pc = "load" /\ pc' = "test_groups")
            \/ (pc = "test_groups_done" /\ pc' = "dashboards")) =>
        /\ UNCHANGED storeVars
        /\ WalkOfStore(generatorCalls', pc = "test_groups_done") ]_vars

\* The dashboards section was walked with skipReleasedProj set: the cell
\* of the released project, first in projNames, got no call, and the two
\* cells of knative got one call each, in the order of repoNames.
C12_Witness ==
    /\ pc = "dashboards"
    /\ projNames = <<in_knative_v1_2, in_knative>>
    /\ repoNames = <<in_Eventing, in_serving>>
    /\ in_serving \in DOMAIN md[in_knative_v1_2]
    /\ DOMAIN md[in_knative] = Repos
    /\ md[in_knative][in_serving] = <<s_nightly>>
    /\ Len(generatorCalls) = 2
    /\ generatorCalls[1].repoName = in_Eventing
    /\ generatorCalls[2].repoName = in_serving
    /\ generatorCalls[2].jobNames = <<s_nightly>>

====
